---- MODULE Spec2Model ----
(***************************************************************************)
(* Model of the receptor state aggregation of Analysis/chemotaxis_model.py:*)
(* State, ReceptorStates, StateAggregationFactory and                      *)
(* ChemotaxisModel.getVariable, over the table a simulation run returns.   *)
(*                                                                         *)
(* Strings are sequences of one-character strings, so that indexing,      *)
(* len() and "%s%d" formatting are computed and not assumed.               *)
(* Floats are fixed-point numbers with FracBits fractional binary digits   *)
(* (a float x is the integer x * Scale), plus the two non-finite results   *)
(* of a division by zero; a quotient is rounded to the nearest             *)
(* representable value, as the float division of numpy rounds.             *)
(***************************************************************************)
EXTENDS Integers, Sequences, FiniteSets, TLC

VARIABLES
  rr,        \* the table the simulation engine returns for the loaded model
  result,    \* ChemotaxisModel._result
  factory,   \* ChemotaxisModel._factory
  ret,       \* the last call made by the caller, with its outcome
  trace      \* the methods that call entered, in order

vars == <<rr, result, factory, ret, trace>>

\* ---------------------------------------------------------------- bounds
NumSamples == 2     \* time samples of a simulation run
MaxVal == 1         \* largest concentration scale factor of a run
FracBits == 6       \* fractional binary digits of a modelled float

\* ---------------------------------------------------------------- floats
RECURSIVE Pow2(_)
Pow2(n) == IF n = 0 THEN 1 ELSE 2 * Pow2(n - 1)

Scale == Pow2(FracBits)

Fin(n) == <<"fin", n>>
Inf == <<"inf", 0>>
NaN == <<"nan", 0>>
IsFin(x) == x[1] = "fin"

\* the float of the integer k
FloatOf(k) == Fin(k * Scale)

\* numpy float addition
FAdd(x, y) ==
  IF x[1] = "nan" \/ y[1] = "nan" THEN NaN
  ELSE IF x[1] = "inf" \/ y[1] = "inf" THEN Inf
  ELSE Fin(x[2] + y[2])

\* a / b for integers a >= 0, b > 0, rounded to nearest, ties to even
RoundDiv(a, b) ==
  LET q == a \div b
      r == a % b
  IN  IF 2 * r > b \/ (2 * r = b /\ q % 2 = 1) THEN q + 1 ELSE q

\* numpy float division: x/0 is inf, 0/0 is nan (a warning, no exception)
FDiv(x, y) ==
  IF x[1] = "nan" \/ y[1] = "nan" THEN NaN
  ELSE IF x[1] = "inf" THEN (IF y[1] = "inf" THEN NaN ELSE Inf)
  ELSE IF y[1] = "inf" THEN Fin(0)
  ELSE IF y[2] = 0 THEN (IF x[2] = 0 THEN NaN ELSE Inf)
  ELSE Fin(RoundDiv(x[2] * Scale, y[2]))

\* ---------------------------------------------------------------- Python values
\* A Python value or a raised exception: its type t, the elements v of a
\* number or a list, and the message m of an exception.
Val(t, v) == [t |-> t, v |-> v, m |-> <<>>]
Exc(t, m) == [t |-> t, v |-> <<>>, m |-> m]
ExcTypes == {"TypeError", "LookupError", "ValueError", "AttributeError"}
IsExc(x) == x.t \in ExcTypes

PyNone == Val("None", <<>>)
PyUnset == Val("unset", <<>>)          \* an attribute never assigned
PyInt0 == Val("int", <<Fin(0)>>)       \* the int 0 that sum() starts from
PyArr(a) == Val("ndarray", a)

\* Python's x + y for the values sum() meets
PyAdd(x, y) ==
  IF IsExc(x) THEN x
  ELSE IF x.t \in {"None", "unset"} \/ y.t \in {"None", "unset"}
    THEN Exc("TypeError", <<"unsupported operand">>)
  ELSE IF x.t = "int" /\ y.t = "int"
    THEN Val("int", <<FAdd(x.v[1], y.v[1])>>)
  ELSE IF x.t = "int"
    THEN PyArr([i \in DOMAIN y.v |-> FAdd(x.v[1], y.v[i])])
  ELSE IF y.t = "int"
    THEN PyArr([i \in DOMAIN x.v |-> FAdd(x.v[i], y.v[1])])
  ELSE PyArr([i \in DOMAIN x.v |-> FAdd(x.v[i], y.v[i])])

\* Python's x / y, element by element on arrays
PyDiv(x, y) ==
  IF IsExc(x) THEN x
  ELSE IF IsExc(y) THEN y
  ELSE IF x.t # "ndarray" \/ y.t # "ndarray"
    THEN Exc("TypeError", <<"unsupported operand">>)
  ELSE PyArr([i \in DOMAIN x.v |-> FDiv(x.v[i], y.v[i])])

\* the builtin sum(data): 0 + data[0] + data[1] + ...
RECURSIVE SumFrom(_, _, _)
SumFrom(acc, data, i) ==
  IF i > Len(data) THEN acc ELSE SumFrom(PyAdd(acc, data[i]), data, i + 1)

PySum(data) == SumFrom(PyInt0, data, 1)

\* ---------------------------------------------------------------- strings
Digits == <<"0", "1", "2", "3", "4", "5", "6", "7", "8", "9">>

\* "%d" % n for n >= 0
RECURSIVE FormatD(_)
FormatD(n) ==
  IF n < 10 THEN <<Digits[n + 1]>> ELSE FormatD(n \div 10) \o <<Digits[(n % 10) + 1]>>

IsDigit(c) == \E i \in DOMAIN Digits : Digits[i] = c

\* int(c) for a one-character string; only called when IsDigit(c)
IntOf(c) == (CHOOSE i \in DOMAIN Digits : Digits[i] = c) - 1

\* ---------------------------------------------------------------- simulation result
\* A result table maps column names to series; NoTable is None.
NoTable == [set |-> FALSE, cols |-> <<>>]
Table(cols) == [set |-> TRUE, cols |-> cols]

\* simulation_result[name]
GetItem(tab, name) ==
  IF ~tab.set THEN Exc("TypeError", <<"not subscriptable">>)
  ELSE IF name \in DOMAIN tab.cols THEN PyArr(tab.cols[name])
  ELSE Exc("LookupError", <<"no field", name>>)

\* ---------------------------------------------------------------- State
\* a naming that drops the phosphorylation suffix
State_makeName_NoSuffix(is_ligand, is_phosphorylated, methylation) ==
  (IF is_ligand THEN <<"L", "T">> ELSE <<"T">>) \o FormatD(methylation)

State_makeName(is_ligand, is_phosphorylated, methylation) ==
  LET name1 == IF is_ligand THEN <<"L", "T">> ELSE <<"T">>
      name2 == name1 \o FormatD(methylation)
  IN  IF is_phosphorylated THEN name2 \o <<"p">> ELSE name2

\* the lookup; an exception stops in the debugger and falls through to None
State_extractData(name, simulation_result) ==
  LET x == GetItem(simulation_result, name)
  IN  IF IsExc(x) THEN PyNone ELSE x

State_init(is_ligand, is_phosphorylated, methylation, simulation_result) ==
  LET name == State_makeName(is_ligand, is_phosphorylated, methylation)
  IN  [is_ligand |-> is_ligand,
       is_phosphorylated |-> is_phosphorylated,
       methylation |-> methylation,
       name |-> name,
       data |-> State_extractData(name, simulation_result),
       nominal_data |-> PyUnset]

getName(s) == s.name
getData(s) == s.data
getNominalData(s) == s.nominal_data

\* a normalisation with the operands of the division exchanged
setNominalValue_Inverted(s, adjustment) ==
  [s EXCEPT !.nominal_data = PyDiv(adjustment, s.data)]

setNominalValue(s, adjustment) ==
  [s EXCEPT !.nominal_data = PyDiv(s.data, adjustment)]

\* ---------------------------------------------------------------- predicates
\* A one-argument selector made by _getFunc.
FAny == [tag |-> "any", n |-> 0]           \* lambda x: True
FId == [tag |-> "id", n |-> 0]             \* lambda x: x
FNot == [tag |-> "not", n |-> 0]           \* lambda x: not x
FEq(n) == [tag |-> "eq", n |-> n]          \* lambda x: x == n

\* a selector whose "eq" compares the level with the letter and not its number:
\* an int never equals a str
Apply_LetterCompared(f, x) ==
  CASE f.tag = "any" -> TRUE
    [] f.tag = "id" -> x
    [] f.tag = "not" -> ~x
    [] f.tag = "eq" -> FALSE

Apply(f, x) ==
  CASE f.tag = "any" -> TRUE
    [] f.tag = "id" -> x
    [] f.tag = "not" -> ~x
    [] f.tag = "eq" -> x = f.n

\* A three-argument predicate over (is_ligand, is_phosphorylated, methylation):
\* a constant, one of the lambdas of the callers, or the conjunction v builds.
PConst(b) == [tag |-> "const", b |-> b, lf |-> FAny, pf |-> FAny, mf |-> FAny]
PLigand == [tag |-> "l", b |-> TRUE, lf |-> FAny, pf |-> FAny, mf |-> FAny]
PPhos == [tag |-> "p", b |-> TRUE, lf |-> FAny, pf |-> FAny, mf |-> FAny]
PMethyl(n) == [tag |-> "m", b |-> TRUE, lf |-> FAny, pf |-> FAny, mf |-> FEq(n)]
PConj(lf, pf, mf) == [tag |-> "conj", b |-> TRUE, lf |-> lf, pf |-> pf, mf |-> mf]

Call(func, l, p, m) ==
  CASE func.tag = "const" -> func.b
    [] func.tag = "l" -> l
    [] func.tag = "p" -> p
    [] func.tag = "m" -> m = func.mf.n
    [] func.tag = "conj" -> Apply(func.lf, l) /\ Apply(func.pf, p) /\ Apply(func.mf, m)

\* ---------------------------------------------------------------- ReceptorStates
is_ligands == <<FALSE, TRUE>>
is_phosphorylateds == <<FALSE, TRUE>>
methylations == <<2, 3, 4>>

\* [s for s in states if func(s.is_ligand, s.is_phosphorylated, s.methylation)]
SelectFrom(states, func) ==
  SelectSeq(states, LAMBDA s : Call(func, s.is_ligand, s.is_phosphorylated, s.methylation))

\* [s.getData() for s in states]
DataOf(sel) == [i \in DOMAIN sel |-> getData(sel[i])]

\* [s.getNominalData() for s in states]
NominalDataOf(sel) == [i \in DOMAIN sel |-> getNominalData(sel[i])]

\* sum of getData() over the selected states
SumFromStates(states, func) == PySum(DataOf(SelectFrom(states, func)))

\* an enumeration whose innermost loop stops one methylation level early
MakeStateList_ShortLoop(tab) ==
  LET np == Len(is_phosphorylateds)
      nm == Len(methylations) - 1
  IN  [i \in 1..(Len(is_ligands) * np * nm) |->
         State_init(is_ligands[((i - 1) \div (np * nm)) + 1],
                    is_phosphorylateds[(((i - 1) \div nm) % np) + 1],
                    methylations[((i - 1) % nm) + 1],
                    tab)]

\* an enumeration with the methylation loop outermost and the ligand loop innermost
MakeStateList_MethylationOuter(tab) ==
  LET np == Len(is_phosphorylateds)
      nl == Len(is_ligands)
  IN  [i \in 1..(Len(methylations) * np * nl) |->
         State_init(is_ligands[((i - 1) % nl) + 1],
                    is_phosphorylateds[(((i - 1) \div nl) % np) + 1],
                    methylations[((i - 1) \div (np * nl)) + 1],
                    tab)]

\* the three nested loops of _makeStates, outermost first
MakeStateList(tab) ==
  LET np == Len(is_phosphorylateds)
      nm == Len(methylations)
  IN  [i \in 1..(Len(is_ligands) * np * nm) |->
         State_init(is_ligands[((i - 1) \div (np * nm)) + 1],
                    is_phosphorylateds[(((i - 1) \div nm) % np) + 1],
                    methylations[((i - 1) % nm) + 1],
                    tab)]

\* the total every state is normalised by
MakeTotal(states) == SumFromStates(states, PConst(TRUE))

\* a normalisation that divides each state by the total of the states up to it
Normalised_RunningTotal(tab, states, total) ==
  IF IsExc(total)
    THEN [t |-> total.t, result |-> tab, states |-> <<>>]
    ELSE [t |-> "ReceptorStates", result |-> tab,
          states |-> [i \in DOMAIN states |->
                        setNominalValue(states[i], PySum(DataOf(SubSeq(states, 1, i))))]]

\* [s.setNominalValue(total) for s in states], unless the total raised
Normalised(tab, states, total) ==
  IF IsExc(total)
    THEN [t |-> total.t, result |-> tab, states |-> <<>>]
    ELSE [t |-> "ReceptorStates", result |-> tab,
          states |-> [i \in DOMAIN states |-> setNominalValue(states[i], total)]]

\* _makeStates on the enumerated states
MakeStates(tab, states) == Normalised(tab, states, MakeTotal(states))

\* ReceptorStates(result): the object, or the exception _makeStates raises
ReceptorStates_init(tab) == MakeStates(tab, MakeStateList(tab))

NoObject == [t |-> "None", result |-> NoTable, states |-> <<>>]

selectStates(rs, func) == Val("list", SelectFrom(rs.states, func))

sumStates(rs, func) == SumFromStates(rs.states, func)

frcStates(rs, func) == PySum(NominalDataOf(SelectFrom(rs.states, func)))

\* ---------------------------------------------------------------- StateAggregationFactory
NameLength == 4

\* lambda x: x in ["T", "F"]
ValidBool(letter) == letter \in {"T", "F"}

\* a range check that lets 5 through
ValidMethylation_UpTo5(letter) ==
  IF ~IsDigit(letter) THEN FALSE ELSE IntOf(letter) > 1 /\ IntOf(letter) <= 5

\* lambda x: isinstance(int(x),int) and int(x) > 1 and int(x) < 5;
\* int(x) raises for a non-digit, which _getFunc turns into False
ValidMethylation(letter) ==
  IF ~IsDigit(letter) THEN FALSE ELSE IntOf(letter) > 1 /\ IntOf(letter) < 5

Validate(validation_function, letter) ==
  IF validation_function = "bool" THEN ValidBool(letter) ELSE ValidMethylation(letter)

\* _getFunc: the selector for name[position] (position counts from 0), or the
\* ValueError naming the name, the letter and the position
getFunc(name, position, validation_function) ==
  LET letter == name[position + 1]
      is_valid == Validate(validation_function, letter)
      bad == [t |-> "ValueError", f |-> FAny,
              m |-> <<"invalid character", name, letter, position>>]
  IN  IF letter = "_" THEN [t |-> "function", f |-> FAny, m |-> <<>>]
      ELSE IF is_valid /\ letter = "T" THEN [t |-> "function", f |-> FId, m |-> <<>>]
      ELSE IF is_valid /\ letter = "F" THEN [t |-> "function", f |-> FNot, m |-> <<>>]
      ELSE IF is_valid /\ IsDigit(letter)
        THEN [t |-> "function", f |-> FEq(IntOf(letter)), m |-> <<>>]
      ELSE bad

\* a call's outcome with the methods entered before it
Traced(prefix, r) == [out |-> r.out, tr |-> prefix \o r.tr]

\* a dispatch with the two aggregates exchanged
Dispatch_Exchanged(rs, name, func) ==
  IF name[1] = "t"
    THEN [out |-> frcStates(rs, func), tr |-> <<"frcStates", "selectStates">>]
    ELSE [out |-> sumStates(rs, func), tr |-> <<"sumStates", "selectStates">>]

\* the dispatch at the end of v
Dispatch(rs, name, func) ==
  IF name[1] = "t"
    THEN [out |-> sumStates(rs, func), tr |-> <<"sumStates", "selectStates">>]
    ELSE [out |-> frcStates(rs, func), tr |-> <<"frcStates", "selectStates">>]

\* a v that queries the states before it looks at the methylation selector
Aggregate_QueryFirst(rs, name, lfunc, pfunc, mfunc) ==
  IF lfunc.t # "function"
    THEN [out |-> Exc(lfunc.t, lfunc.m), tr |-> <<"v", "_getFunc">>]
  ELSE IF pfunc.t # "function"
    THEN [out |-> Exc(pfunc.t, pfunc.m), tr |-> <<"v", "_getFunc", "_getFunc">>]
  ELSE IF mfunc.t # "function"
    THEN [out |-> Exc(mfunc.t, mfunc.m),
          tr |-> <<"v", "_getFunc", "_getFunc">>
                 \o Dispatch(rs, name, PConj(lfunc.f, pfunc.f, FAny)).tr \o <<"_getFunc">>]
  ELSE Traced(<<"v", "_getFunc", "_getFunc", "_getFunc">>,
              Dispatch(rs, name, PConj(lfunc.f, pfunc.f, mfunc.f)))

\* a v that hands the phosphorylation selector the ligand value and back
Aggregate_ArgumentsMixed(rs, name, lfunc, pfunc, mfunc) ==
  IF lfunc.t # "function"
    THEN [out |-> Exc(lfunc.t, lfunc.m), tr |-> <<"v", "_getFunc">>]
  ELSE IF pfunc.t # "function"
    THEN [out |-> Exc(pfunc.t, pfunc.m), tr |-> <<"v", "_getFunc", "_getFunc">>]
  ELSE IF mfunc.t # "function"
    THEN [out |-> Exc(mfunc.t, mfunc.m), tr |-> <<"v", "_getFunc", "_getFunc", "_getFunc">>]
  ELSE Traced(<<"v", "_getFunc", "_getFunc", "_getFunc">>,
              Dispatch(rs, name, PConj(pfunc.f, lfunc.f, mfunc.f)))

\* v once the three selectors are made: the first ValueError is raised, and only
\* with three selectors are the states queried
Aggregate(rs, name, lfunc, pfunc, mfunc) ==
  IF lfunc.t # "function"
    THEN [out |-> Exc(lfunc.t, lfunc.m), tr |-> <<"v", "_getFunc">>]
  ELSE IF pfunc.t # "function"
    THEN [out |-> Exc(pfunc.t, pfunc.m), tr |-> <<"v", "_getFunc", "_getFunc">>]
  ELSE IF mfunc.t # "function"
    THEN [out |-> Exc(mfunc.t, mfunc.m), tr |-> <<"v", "_getFunc", "_getFunc", "_getFunc">>]
  ELSE Traced(<<"v", "_getFunc", "_getFunc", "_getFunc">>,
              Dispatch(rs, name, PConj(lfunc.f, pfunc.f, mfunc.f)))

\* v(name): the outcome and the methods entered on the way
v(rs, name) ==
  IF Len(name) # NameLength
    THEN [out |-> Exc("ValueError", <<"Name must be 4 characters.">>), tr |-> <<"v">>]
    ELSE Aggregate(rs, name, getFunc(name, 1, "bool"), getFunc(name, 2, "bool"),
                   getFunc(name, 3, "methylation"))

\* self._factory.v(name) as getVariable calls it: _factory may still be None
FactoryV(fac, name) ==
  IF fac.t # "ReceptorStates"
    THEN [out |-> Exc("AttributeError", <<"v">>), tr |-> <<>>]
    ELSE v(fac, name)

\* ---------------------------------------------------------------- ChemotaxisModel
TIME == <<"t", "i", "m", "e">>
N_fYp == <<"f", "Y", "p">>
N_fBp == <<"f", "B", "p">>
N_Yp == <<"Y", "p">>
N_Y == <<"Y">>
N_Bp == <<"B", "p">>
N_B == <<"B">>

\* a lookup that hands back None when nothing resolves the name
Resolve_ReturnsNone(fv, item, name) ==
  IF ~IsExc(fv.out) /\ fv.out.t # "None"
    THEN [out |-> fv.out, tr |-> <<"getVariable">> \o fv.tr]
  ELSE IF ~IsExc(item)
    THEN [out |-> item, tr |-> <<"getVariable">> \o fv.tr]
  ELSE [out |-> PyNone, tr |-> <<"getVariable">> \o fv.tr]

\* the end of getVariable's else branch: the state aggregate fv if v returned
\* one, else the model column, else the debugger stop and the ValueError
Resolve(fv, item, name) ==
  IF ~IsExc(fv.out) /\ fv.out.t # "None"
    THEN [out |-> fv.out, tr |-> <<"getVariable">> \o fv.tr]
  ELSE IF ~IsExc(item)
    THEN [out |-> item, tr |-> <<"getVariable">> \o fv.tr]
  ELSE [out |-> Exc("ValueError", <<"Variable not found.", name>>),
        tr |-> <<"getVariable">> \o fv.tr \o <<"pdb.set_trace">>]

\* the else branch of getVariable: a state name, then a model name
LookupVariable(res, fac, name) == Resolve(FactoryV(fac, name), GetItem(res, name), name)

\* Xp / (Xp + X), once both are looked up
Ratio(xp, x) ==
  IF IsExc(xp.out) THEN [out |-> xp.out, tr |-> xp.tr]
  ELSE IF IsExc(x.out) THEN [out |-> x.out, tr |-> xp.tr \o x.tr]
  ELSE [out |-> PyDiv(xp.out, PyAdd(xp.out, x.out)), tr |-> xp.tr \o x.tr]

\* getYpFraction / getBpFraction
Fraction(res, fac, name_p, name) ==
  Ratio(LookupVariable(res, fac, name_p), LookupVariable(res, fac, name))

getVariable(res, fac, name) ==
  IF name = TIME
    THEN [out |-> GetItem(res, TIME), tr |-> <<"getVariable">>]
  ELSE IF name = N_fYp
    THEN Traced(<<"getVariable", "getYpFraction">>, Fraction(res, fac, N_Yp, N_Y))
  ELSE IF name = N_fBp
    THEN Traced(<<"getVariable", "getBpFraction">>, Fraction(res, fac, N_Bp, N_B))
  ELSE LookupVariable(res, fac, name)

\* ---------------------------------------------------------------- simulation runs
\* The receptor species of the reaction network, and the other columns read here.
ReceptorSpecies ==
  << <<"T", "2">>, <<"T", "3">>, <<"T", "4">>,
     <<"T", "2", "p">>, <<"T", "3", "p">>, <<"T", "4", "p">>,
     <<"L", "T", "2">>, <<"L", "T", "3">>, <<"L", "T", "4">>,
     <<"L", "T", "2", "p">>, <<"L", "T", "3", "p">>, <<"L", "T", "4", "p">> >>

OtherColumns == {TIME, N_Y, N_Yp, N_B, N_Bp}

SpeciesIndex(name) == CHOOSE i \in DOMAIN ReceptorSpecies : ReceptorSpecies[i] = name

\* The concentration of the i-th receptor species in one sample: every receptor
\* in T2 (the initial condition), spread evenly, or a different amount in each.
Shapes == {"t2", "flat", "ramp"}

ShapeValue(shape, i) ==
  CASE shape = "t2" -> IF i = 1 THEN 1 ELSE 0
    [] shape = "flat" -> 1
    [] shape = "ramp" -> i

\* the table of a run: the shape scaled by scales[t] at sample t, with the
\* columns in `missing` absent (a reaction network without those species)
RunTable(shape, scales, missing) ==
  Table([name \in ({ReceptorSpecies[i] : i \in DOMAIN ReceptorSpecies}
                    \cup OtherColumns) \ missing |->
           IF name = TIME THEN [t \in 1..NumSamples |-> FloatOf(t - 1)]
           ELSE IF name \in {N_Y, N_B} THEN [t \in 1..NumSamples |-> FloatOf(2)]
           ELSE IF name \in {N_Yp, N_Bp} THEN [t \in 1..NumSamples |-> FloatOf(t - 1)]
           ELSE [t \in 1..NumSamples |->
                   FloatOf(scales[t] * ShapeValue(shape, SpeciesIndex(name)))]])

MissingChoices == {{}, {<<"T", "3">>}, {<<"L", "T", "4", "p">>}}

RunTables ==
  {RunTable(shape, scales, missing) :
     shape \in Shapes, scales \in [1..NumSamples -> 0..MaxVal], missing \in MissingChoices}

\* ---------------------------------------------------------------- the caller's inputs
Leads == {"t", "f", "x"}
PatternChars == {"_", "T", "F", "1", "2", "3", "4", "5"}

PatternNames ==
  {<<a, b, c, d>> : a \in Leads, b \in PatternChars, c \in PatternChars, d \in PatternChars}

OtherNames ==
  {<<>>, <<"t">>, <<"t", "_", "_">>, <<"t", "_", "_", "_", "_">>,
   <<"t", "T", "T", "_", "3">>, <<"f", "T", "T", "_", "_">>}

VariableNames ==
  {TIME, N_fYp, N_fBp, N_Yp, N_Y, N_Bp, N_B,
   <<"T", "2">>, <<"T", "3">>, <<"L", "T", "3", "p">>, <<"L", "T", "4", "p">>,
   <<"t", "_", "_", "_">>, <<"f", "T", "T", "_">>, <<"t", "T", "T", "3">>,
   <<"t", "T", "T", "5">>, <<"f", "T", "T", "T">>, <<"t", "_", "_", "_", "_">>,
   <<"X", "Y", "Z">>, <<"T", "5">>, <<"J", "1">>, <<>>}

Predicates == {PConst(TRUE), PConst(FALSE), PLigand, PPhos, PMethyl(2)}

\* ---------------------------------------------------------------- state machine
NoCall == [op |-> "none", name |-> <<>>, func |-> PConst(TRUE), out |-> PyNone]
Returned(op, name, func, out) == [op |-> op, name |-> name, func |-> func, out |-> out]

Idle == ret.op = "none"

\* ChemotaxisModel(): nothing run yet
Init ==
  /\ rr \in RunTables
  /\ result = NoTable
  /\ factory = NoObject
  /\ ret = NoCall
  /\ trace = <<>>

\* what a caller of ReceptorStates(...) gets: the object or the exception
Constructed(rs) ==
  IF rs.t = "ReceptorStates" THEN Val("ReceptorStates", <<rs>>)
  ELSE Exc(rs.t, <<"unsupported operand">>)

\* run(): _result is assigned, then getReceptorStates() builds the states the
\* factory is bound to; when that raises, _factory keeps its value
RunWith(rs) ==
  /\ result' = rr
  /\ factory' = IF rs.t = "ReceptorStates" THEN rs ELSE factory
  /\ ret' = Returned("run", <<>>, PConst(TRUE),
                     IF rs.t = "ReceptorStates" THEN Val("result", <<>>)
                     ELSE Constructed(rs))
  /\ trace' = <<"run", "getReceptorStates", "_makeStates", "sumStates", "selectStates">>

Run ==
  /\ Idle
  /\ RunWith(ReceptorStates_init(rr))
  /\ UNCHANGED rr

\* State(l, p, m, model.getResult())
NewState ==
  /\ Idle
  /\ \E l \in BOOLEAN, p \in BOOLEAN, m \in 2..4 :
       ret' = Returned("State", <<>>, PConst(TRUE),
                       Val("State", <<State_init(l, p, m, result)>>))
  /\ trace' = <<"State", "_makeName", "_extractData">>
  /\ UNCHANGED <<rr, result, factory>>

\* getReceptorStates(): ReceptorStates(self._result)
GetReceptorStates ==
  /\ Idle
  /\ ret' = Returned("getReceptorStates", <<>>, PConst(TRUE),
                     Constructed(ReceptorStates_init(result)))
  /\ trace' = <<"getReceptorStates", "_makeStates", "sumStates", "selectStates">>
  /\ UNCHANGED <<rr, result, factory>>

HasStates == factory.t = "ReceptorStates"

SelectStates ==
  /\ Idle /\ HasStates
  /\ \E func \in Predicates :
       ret' = Returned("selectStates", <<>>, func, selectStates(factory, func))
  /\ trace' = <<"selectStates">>
  /\ UNCHANGED <<rr, result, factory>>

SumStates ==
  /\ Idle /\ HasStates
  /\ \E func \in Predicates :
       ret' = Returned("sumStates", <<>>, func, sumStates(factory, func))
  /\ trace' = <<"sumStates", "selectStates">>
  /\ UNCHANGED <<rr, result, factory>>

FrcStates ==
  /\ Idle /\ HasStates
  /\ \E func \in Predicates :
       ret' = Returned("frcStates", <<>>, func, frcStates(factory, func))
  /\ trace' = <<"frcStates", "selectStates">>
  /\ UNCHANGED <<rr, result, factory>>

\* a call returns: its outcome and the methods it entered
Return(op, name, r) ==
  /\ ret' = Returned(op, name, PConst(TRUE), r.out)
  /\ trace' = r.tr

\* StateAggregationFactory.v(name) on the factory of the model
V ==
  /\ Idle /\ HasStates
  /\ \E name \in PatternNames \cup OtherNames : Return("v", name, v(factory, name))
  /\ UNCHANGED <<rr, result, factory>>

GetVariable ==
  /\ Idle
  /\ \E name \in VariableNames :
       Return("getVariable", name, getVariable(result, factory, name))
  /\ UNCHANGED <<rr, result, factory>>

\* the caller takes the outcome and is ready for its next call
Resume ==
  /\ ~Idle
  /\ ret' = NoCall
  /\ trace' = <<>>
  /\ UNCHANGED <<rr, result, factory>>

Next ==
  \/ Run
  \/ NewState
  \/ GetReceptorStates
  \/ SelectStates
  \/ SumStates
  \/ FrcStates
  \/ V
  \/ GetVariable
  \/ Resume

Spec == Init /\ [][Next]_vars

\* ================================================================ claims
\* the State a NewState call returned
NewStateReturned == ret.op = "State"
TheState == ret.out.v[1]

SameAttributes(s1, s2) ==
  /\ s1.is_ligand = s2.is_ligand
  /\ s1.is_phosphorylated = s2.is_phosphorylated
  /\ s1.methylation = s2.methylation

\* the name of s read back letter by letter: the ligand marker, the methylation
\* digit, then "p" exactly when phosphorylated
NameEncodes(s) ==
  LET n == s.name
      k == IF s.is_ligand THEN 2 ELSE 1
  IN  /\ Len(n) = k + 1 + (IF s.is_phosphorylated THEN 1 ELSE 0)
      /\ IF s.is_ligand THEN n[1] = "L" /\ n[2] = "T" ELSE n[1] = "T"
      /\ IsDigit(n[k + 1]) /\ IntOf(n[k + 1]) = s.methylation
      /\ s.is_phosphorylated => n[Len(n)] = "p"

AttributeTuples == {<<l, p, m>> : l \in BOOLEAN, p \in BOOLEAN, m \in {2, 3, 4}}

HoldsOnePerTuple(states) ==
  /\ Len(states) = Cardinality(AttributeTuples)
  /\ \A a \in AttributeTuples :
       Cardinality({i \in DOMAIN states :
                      <<states[i].is_ligand, states[i].is_phosphorylated,
                        states[i].methylation>> = a}) = 1

States == factory.states
Samples == 1..NumSamples

RECURSIVE AddUp(_, _)
AddUp(xs, i) == IF i = 0 THEN Fin(0) ELSE FAdd(AddUp(xs, i - 1), xs[i])

\* the sum at sample t of the raw (or nominal) series of the states in sel
RawSumAt(sel, t) ==
  AddUp([i \in DOMAIN States |-> IF i \in sel THEN States[i].data.v[t] ELSE Fin(0)],
        Len(States))
NominalSumAt(sel, t) ==
  AddUp([i \in DOMAIN States |-> IF i \in sel THEN States[i].nominal_data.v[t] ELSE Fin(0)],
        Len(States))

AllStates == DOMAIN States
TotalAt(t) == RawSumAt(AllStates, t)

\* the pattern grammar: a lead, then ligand, phosphorylated, methylation
PositionValid(name, position) ==
  IF position = 3 THEN name[position + 1] \in {"_", "2", "3", "4"}
  ELSE name[position + 1] \in {"_", "T", "F"}
PatternValid(name) == Len(name) = 4 /\ \A position \in 1..3 : PositionValid(name, position)

\* the states a valid pattern asks for
PatternMatches(name, s) ==
  /\ name[2] = "T" => s.is_ligand
  /\ name[2] = "F" => ~s.is_ligand
  /\ name[3] = "T" => s.is_phosphorylated
  /\ name[3] = "F" => ~s.is_phosphorylated
  /\ name[4] # "_" => <<name[4]>> = FormatD(s.methylation)
Matching(name) == {i \in DOMAIN States : PatternMatches(name, States[i])}

P_f___ == <<"f", "_", "_", "_">>
P_t___ == <<"t", "_", "_", "_">>
P_tTT3 == <<"t", "T", "T", "3">>

\* ---------------------------------------------------------------- C3
FrcOfAllReturned ==
  \/ ret.op = "frcStates" /\ ret.func = PConst(TRUE)
  \/ ret.op = "v" /\ ret.name = P_f___

Distance(a, b) == IF a >= b THEN a - b ELSE b - a

VReturned == ret.op = "v"
InvalidPatternError == ret.out.t = "ValueError"

\* the message names a letter of the name, its position, and that letter is
\* not allowed at that position
NamesOffender(m, name) ==
  /\ Len(m) = 4
  /\ m[2] = name
  /\ m[4] \in 1..3
  /\ m[4] < Len(name)
  /\ m[3] = name[m[4] + 1]
  /\ ~PositionValid(name, m[4])

Queries == {"sumStates", "frcStates", "selectStates"}
QueriesIn(tr) == {i \in DOMAIN tr : tr[i] \in Queries}
ChecksIn(tr) == {i \in DOMAIN tr : tr[i] = "_getFunc"}

\* C5: in a call of v every check of the pattern (the length, then the three
\* positions) is made before the states are queried; for an invalid pattern no
\* selection or aggregation runs at all, and the ReceptorStates is left as it was.
C5_ValidationBeforeQuery ==
  [][ret'.op = "v" =>
        /\ factory' = factory
        /\ \A q \in QueriesIn(trace') :
             /\ Cardinality(ChecksIn(trace')) = 3
             /\ \A c \in ChecksIn(trace') : c < q
        /\ ~PatternValid(ret'.name) => QueriesIn(trace') = {}]_vars

C5_Witness ==
  /\ VReturned
  /\ ret.name = <<"t", "T", "F", "1">>
  /\ InvalidPatternError
  /\ trace = <<"v", "_getFunc", "_getFunc", "_getFunc">>

\* ---------------------------------------------------------------- C6
\* C6: for a valid pattern v returns the aggregate over exactly the states that
\* match every position (ligand, phosphorylated, methylation; "_" matches all):
\* the sum of the raw series for the lead "t", of the nominal series for any
\* other lead; "tTT3" gives the raw series of the one state named LT3p.
C6_AggregateOverMatchingStates ==
  (VReturned /\ PatternValid(ret.name)) =>
    /\ ret.out.t = "ndarray"
    /\ Len(ret.out.v) = NumSamples
    /\ \A t \in Samples :
         ret.out.v[t] = IF ret.name[1] = "t" THEN RawSumAt(Matching(ret.name), t)
                        ELSE NominalSumAt(Matching(ret.name), t)
    /\ ret.name = P_tTT3 =>
         \E i \in DOMAIN States :
           /\ States[i].name = <<"L", "T", "3", "p">>
           /\ Matching(ret.name) = {i}
           /\ ret.out = States[i].data

C6_Witness ==
  /\ VReturned
  /\ ret.name = P_tTT3
  /\ \E i \in DOMAIN States :
       /\ States[i].name = <<"L", "T", "3", "p">>
       /\ ret.out = States[i].data
       /\ \A j \in DOMAIN States : j # i => States[j].data # States[i].data
       /\ \A t \in Samples : States[i].data.v[t] # Fin(0)

Selected(func) ==
  {i \in DOMAIN States :
     Call(func, States[i].is_ligand, States[i].is_phosphorylated, States[i].methylation)}

\* C8: sumStates(predicate) returns the element-wise sum of the raw series of the
\* selected states, and a zero-filled series with one element per time sample
\* when the predicate selects no state (not a scalar, and without raising).
C8_SumIsSeriesEvenWhenEmpty ==
  ret.op = "sumStates" =>
    /\ ret.out.t = "ndarray"
    /\ Len(ret.out.v) = Len(factory.result.cols[TIME])
    /\ \A t \in DOMAIN ret.out.v : ret.out.v[t] = RawSumAt(Selected(ret.func), t)

\* ---------------------------------------------------------------- C9
ReservedNames == {TIME, N_fYp, N_fBp}
InResult(name) == result.set /\ name \in DOMAIN result.cols

\* C9: getVariable of a name that is not reserved, no valid aggregation pattern
\* and no column of the simulation result raises the not-found error naming the
\* variable; it never returns None or a placeholder.
C9_UnresolvedNameRaises ==
  ret.op = "getVariable" =>
    /\ ret.out.t # "None"
    /\ (ret.name \notin ReservedNames /\ ~PatternValid(ret.name) /\ ~InResult(ret.name)) =>
         /\ ret.out.t = "ValueError"
         /\ ret.out.m = <<"Variable not found.", ret.name>>

C9_Witness ==
  /\ ret.op = "getVariable"
  /\ ret.name = <<"X", "Y", "Z">>
  /\ HasStates
  /\ ret.out.t = "ValueError"
  /\ ret.out.m = <<"Variable not found.", <<"X", "Y", "Z">>>>

\* ---------------------------------------------------------------- C10
\* C10: constructing a State whose name is no column of the simulation result
\* raises a lookup error to the caller, so that no State and no ReceptorStates
\* exists whose data is None.
C10_MissingColumnRaises ==
  /\ (NewStateReturned /\ result.set) =>
       /\ TheState.name \notin DOMAIN result.cols => IsExc(ret.out)
       /\ ~IsExc(ret.out) => TheState.data.t # "None"
  /\ \A i \in DOMAIN States : States[i].data.t # "None"

\* ---------------------------------------------------------------- C11
TotalQuery == v(factory, P_t___).out

Rank(s) ==
  (IF s.is_ligand THEN 6 ELSE 0) + (IF s.is_phosphorylated THEN 3 ELSE 0) + (s.methylation - 2)

\* the k-th selected index, counting from the front of the enumeration
KthOf(sel, k) == CHOOSE i \in sel : Cardinality({j \in sel : j < i}) = k - 1

SelectStatesReturned == ret.op = "selectStates"

NormalisedByFullTotal(states) ==
  \A i \in DOMAIN states :
    /\ states[i].data.t = "ndarray"
    /\ states[i].nominal_data.t = "ndarray"
    /\ Len(states[i].nominal_data.v) = Len(states[i].data.v)
    /\ \A t \in DOMAIN states[i].data.v :
         states[i].nominal_data.v[t] =
           FDiv(states[i].data.v[t],
                AddUp([j \in DOMAIN states |-> states[j].data.v[t]], Len(states)))

ConstructionReturned == ret.op \in {"run", "getReceptorStates"}
ReadOnlyCalls == {"selectStates", "sumStates", "frcStates", "v"}

\* C13: the normalisation total is computed once, in the construction, from the
\* raw data of all the enumerated states, and every nominal series is the raw
\* series over that one total; a call of selectStates, sumStates, frcStates or v
\* leaves the states, their raw data and their nominal data as they were.
C13_TotalOnceAndStatesFrozen ==
  /\ [](HasStates => NormalisedByFullTotal(States))
  /\ []((ret.op = "getReceptorStates" /\ ~IsExc(ret.out)) =>
          NormalisedByFullTotal(ret.out.v[1].states))
  /\ [](ConstructionReturned =>
          \E k \in DOMAIN trace :
            /\ trace[k] = "_makeStates"
            /\ {i \in DOMAIN trace : trace[i] = "sumStates"} = {k + 1})
  /\ [][ret'.op \in ReadOnlyCalls => factory' = factory]_vars

C13_Witness ==
  /\ ret.op = "frcStates"
  /\ ret.func = PLigand
  /\ NormalisedByFullTotal(States)
  /\ \A t \in Samples : TotalAt(t) # Fin(0)
  /\ \E i, j \in DOMAIN States :
       /\ States[i].nominal_data # States[j].nominal_data
       /\ \A t \in Samples : States[i].nominal_data.v[t] \notin {Fin(0), Fin(Scale)}

\* ---------------------------------------------------------------- C14
FractionReturned ==
  \/ ret.op = "frcStates"
  \/ VReturned /\ PatternValid(ret.name) /\ ret.name[1] # "t"

\* C14: where the cross-state total is zero at a sample, the normalisation
\* stores a defined value (zero or a sentinel): no nominal series holds an
\* infinite or NaN element, and frcStates (also through v) returns none.
C14_ZeroTotalGivesDefinedValue ==
  /\ \A i \in DOMAIN States :
       \A t \in DOMAIN States[i].nominal_data.v : IsFin(States[i].nominal_data.v[t])
  /\ FractionReturned => \A t \in DOMAIN ret.out.v : IsFin(ret.out.v[t])

====
